---- MODULE Spec2Model ----
(***************************************************************************)
(* A model of endpoint_scrape.py: the regular-expression classifier        *)
(* (extract_urls), the path normaliser (clean_urls), the forbidden-         *)
(* character filter and aggregator (search_directory_for_urls), the two     *)
(* report writers (process_dir, process_repo) and the dispatcher (main).    *)
(*                                                                         *)
(* A text is a sequence of one-character strings.  A file is a record       *)
(* [text, invalid]: text is what a decode that ignores invalid bytes        *)
(* returns, invalid is the set of byte offsets that hold an invalid UTF-8   *)
(* byte.  A directory tree is the sequence of its files in the order        *)
(* os.walk meets them, whatever directory each is in.  A Python set is a    *)
(* bag whose add keeps one copy, and the report is a bag of lines, so that  *)
(* a string held twice or a line written twice is seen twice; the order of  *)
(* the lines is not modelled (the code iterates over sets, whose order is   *)
(* unspecified).                                                            *)
(***************************************************************************)
EXTENDS Integers, Sequences, FiniteSets, Bags, TLC

VARIABLES
    \* ---- the program run (main) ----
    pc,             \* position of main
    exit_code,      \* -1 while running, else the process's exit status
    gitInstalled,   \* does `git --version` succeed
    args,           \* the command line: dir, repo, file, output, append
    cloneDir,       \* the directory 'cloned_repo': [exists, files]
    output,         \* the --output file: [exists, lines]
    queue,          \* repository URLs still to be processed
    tree,           \* files of the directory being walked, in walk order
    scanIdx,        \* index in tree of the next file to scan
    all_urls,       \* the ResultSet of the scan in progress
    \* ---- what the run has done so far (for the properties) ----
    output0,        \* the output file as main found it
    calls,          \* one record per process_dir / process_repo call begun
    contrib,        \* per file of the walk so far: was it read, what it offered
    \* ---- one call of extract_urls, step by step ----
    text,           \* the argument of extract_urls
    epc,            \* position inside extract_urls
    full_urls,      \* line 60
    partial_urls,   \* line 61
    forward_slash_strings, \* line 62
    result          \* the value returned at line 64

vars == <<pc, exit_code, gitInstalled, args, cloneDir, output, queue, tree,
          scanIdx, all_urls, output0, calls, contrib,
          text, epc, full_urls, partial_urls, forward_slash_strings, result>>

progVars == <<pc, exit_code, gitInstalled, args, cloneDir, output, queue,
              tree, scanIdx, all_urls, output0, calls, contrib>>

extractVars == <<text, epc, full_urls, partial_urls, forward_slash_strings, result>>

----------------------------------------------------------------------------
(* Characters and character classes of the three patterns.                 *)

LowerLetters == {"a","b","c","d","e","f","g","h","i","j","k","l","m",
                 "n","o","p","q","r","s","t","u","v","w","x","y","z"}

UpperLetters == {"A","B","C","D","E","F","G","H","I","J","K","L","M",
                 "N","O","P","Q","R","S","T","U","V","W","X","Y","Z"}

Digits == {"0","1","2","3","4","5","6","7","8","9"}

\* \s
WhiteSpace == {" ", "\t", "\n", "\r", "\f"}

\* ["\']
Quotes == {"\"", "'"}

\* \w
WordChars == LowerLetters \cup UpperLetters \cup Digits \cup {"_"}

\* [\w./]
PathChars == WordChars \cup {".", "/"}

\* the complement of [^\s"\'<>]
NotFwdChars == WhiteSpace \cup Quotes \cup {"<", ">"}

\* the range $-_ of the class [$-_@.&+]
DollarToUnderscore ==
    {"$","%","&","'","(",")","*","+",",","-",".","/"} \cup Digits
    \cup {":",";","<","=",">","?","@"} \cup UpperLetters
    \cup {"[","\\","]","^","_"}

\* [a-zA-Z] | [0-9] | [$-_@.&+] | [!*\\(\\),]   (%XX is made of these too)
UrlChars == LowerLetters \cup UpperLetters \cup Digits \cup DollarToUnderscore
            \cup {"@", ".", "&", "+"} \cup {"!", "*", "\\", "(", ")", ","}

----------------------------------------------------------------------------
(* String helpers.                                                          *)

StartsWithAt(s, p, pat) ==
    /\ p >= 1
    /\ p + Len(pat) - 1 <= Len(s)
    /\ SubSeq(s, p, p + Len(pat) - 1) = pat

startswith(s, prefix) == StartsWithAt(s, 1, prefix)

RECURSIVE rstrip(_, _)
rstrip(s, chars) ==
    IF s # <<>> /\ s[Len(s)] \in chars
    THEN rstrip(SubSeq(s, 1, Len(s) - 1), chars)
    ELSE s

RECURSIVE lstrip(_, _)
lstrip(s, chars) ==
    IF s # <<>> /\ s[1] \in chars
    THEN lstrip(Tail(s), chars)
    ELSE s

\* does any character of s belong to chars
HasCharIn(s, chars) == \E k \in 1..Len(s) : s[k] \in chars

\* the end (exclusive) of the longest run of characters of class from p on
RunEndIn(s, p, class) ==
    CHOOSE e \in p..(Len(s) + 1) :
        /\ \A r \in p..(e - 1) : s[r] \in class
        /\ (e = Len(s) + 1 \/ s[e] \notin class)

\* the same for a negated class
RunEndNotIn(s, p, excluded) ==
    CHOOSE e \in p..(Len(s) + 1) :
        /\ \A r \in p..(e - 1) : s[r] \notin excluded
        /\ (e = Len(s) + 1 \/ s[e] \in excluded)

\* '.' matches anything but a newline: where '.*' started at p must stop
LineEnd(s, p) ==
    CHOOSE q \in p..(Len(s) + 1) :
        /\ \A r \in p..(q - 1) : s[r] # "\n"
        /\ (q = Len(s) + 1 \/ s[q] = "\n")

\* does '.*pat' match at p
RestOfLineHas(s, p, pat) ==
    \E k \in p..LineEnd(s, p) : StartsWithAt(s, k, pat)

----------------------------------------------------------------------------
(* The pieces of the two path patterns (lines 52-58).                       *)

\* (?!.*//)(?!.*\*{2})(?!.*\/\*[-=])
Heuristics(s, t) ==
    /\ ~RestOfLineHas(s, t, <<"/", "/">>)
    /\ ~RestOfLineHas(s, t, <<"*", "*">>)
    /\ ~RestOfLineHas(s, t, <<"/", "*", "-">>)
    /\ ~RestOfLineHas(s, t, <<"/", "*", "=">>)

\* (?=\s|$|["\'])   ($ before a final newline is a case of \s)
RightBoundary(s, e) == e > Len(s) \/ s[e] \in WhiteSpace \cup Quotes

\* (?!.*,)
NoCommaAfter(s, e) == ~RestOfLineHas(s, e, <<",">>)

NoMatch == [ok |-> FALSE, group |-> <<>>, end |-> 0]

\* variant: any word/path character may start the token
PartialPrefixMutant(s, t) ==
    t <= Len(s) /\ s[t] \in PathChars

\* (\./[\w./]*|\.\./[\w./]*|/[\w./]*)
PartialPrefix(s, t) ==
    \/ StartsWithAt(s, t, <<".", "/">>)
    \/ StartsWithAt(s, t, <<".", ".", "/">>)
    \/ StartsWithAt(s, t, <<"/">>)

\* partial_url_pattern from the token start t on (after the left boundary)
PartialBody(s, t) ==
    LET e == RunEndIn(s, t, PathChars) IN
    IF /\ Heuristics(s, t)
       /\ PartialPrefix(s, t)
       /\ RightBoundary(s, e)
       /\ NoCommaAfter(s, e)
    THEN [ok |-> TRUE, group |-> SubSeq(s, t, e - 1), end |-> e]
    ELSE NoMatch

\* forward_slash_pattern from the token start t on; its group
\* (/[^\s"\'<>]*)? is optional
ForwardBody(s, t) ==
    IF t <= Len(s) /\ s[t] = "/"
    THEN LET e == RunEndNotIn(s, t, NotFwdChars) IN
         IF Heuristics(s, t) /\ RightBoundary(s, e) /\ NoCommaAfter(s, e)
         THEN [ok |-> TRUE, group |-> SubSeq(s, t, e - 1), end |-> e]
         ELSE NoMatch
    ELSE \* the group does not take part: findall reports it as ''
         IF Heuristics(s, t) /\ RightBoundary(s, t) /\ NoCommaAfter(s, t)
         THEN [ok |-> TRUE, group |-> <<>>, end |-> t]
         ELSE NoMatch

Body(pat, s, t) == IF pat = "partial" THEN PartialBody(s, t) ELSE ForwardBody(s, t)

\* One attempt of a path pattern at search position p.  The left boundary
\* (?:^|\s|["\']) is tried in that order; must_advance forbids an empty match.
MatchAt(pat, s, p, must_advance) ==
    LET atStart == IF p = 1 THEN Body(pat, s, 1) ELSE NoMatch
        afterCh == IF p <= Len(s) /\ s[p] \in WhiteSpace \cup Quotes
                   THEN Body(pat, s, p + 1) ELSE NoMatch
    IN  IF atStart.ok /\ ~(must_advance /\ atStart.end = p) THEN atStart
        ELSE afterCh

\* pattern.findall(text): the groups of the non-overlapping matches, left to right
RECURSIVE FindAllFrom(_, _, _, _)
FindAllFrom(pat, s, p, must_advance) ==
    IF p > Len(s) + 1 THEN <<>>
    ELSE LET m == MatchAt(pat, s, p, must_advance) IN
         IF m.ok
         THEN <<m.group>> \o FindAllFrom(pat, s, m.end, m.end = p)
         ELSE FindAllFrom(pat, s, p + 1, FALSE)

\* url_pattern (line 50) at search position p
UrlMatchAt(s, p) ==
    IF ~StartsWithAt(s, p, <<"h", "t", "t", "p">>) THEN NoMatch
    ELSE LET q == IF p + 4 <= Len(s) /\ s[p + 4] = "s" THEN p + 5 ELSE p + 4 IN
         IF ~StartsWithAt(s, q, <<":", "/", "/">>) THEN NoMatch
         ELSE LET b == q + 3
                  e == RunEndIn(s, b, UrlChars)
              IN  IF e > b
                  THEN [ok |-> TRUE, group |-> SubSeq(s, p, e - 1), end |-> e]
                  ELSE NoMatch

RECURSIVE UrlFindAllFrom(_, _)
UrlFindAllFrom(s, p) ==
    IF p > Len(s) THEN <<>>
    ELSE LET m == UrlMatchAt(s, p) IN
         IF m.ok THEN <<m.group>> \o UrlFindAllFrom(s, m.end)
         ELSE UrlFindAllFrom(s, p + 1)

url_pattern_findall(s) == UrlFindAllFrom(s, 1)

partial_url_pattern_findall(s) == FindAllFrom("partial", s, 1, FALSE)

forward_slash_pattern_findall(s) == FindAllFrom("forward", s, 1, FALSE)

----------------------------------------------------------------------------
(* extract_urls and clean_urls.  A match is the tuple of line 60 without    *)
(* repo and file_path, which the caller throws away (line 111).             *)

\* [(url.rstrip(','), flag, repo, file_path, i+1) for i, url in enumerate(found)]
Tagged(found, flag) ==
    [i \in 1..Len(found) |->
        [url |-> rstrip(found[i], {","}), flag |-> flag, i |-> i]]

\* the loop of lines 71-73
RECURSIVE StripRelative(_)
StripRelative(u) ==
    IF startswith(u, <<".", "/">>) \/ startswith(u, <<".", ".", "/">>)
    THEN StripRelative(lstrip(lstrip(u, {".", "/"}), {".", "/"}))
    ELSE u

\* variant: the '/' of lines 76-77 is not prepended
CleanOneMutant(u) == StripRelative(u)

\* lines 69-77 for one url
CleanOne(u) ==
    LET stripped == StripRelative(u) IN
    IF ~startswith(stripped, <<"/">>) THEN <<"/">> \o stripped ELSE stripped

clean_urls(urls_to_clean) ==
    [k \in 1..Len(urls_to_clean) |->
        [urls_to_clean[k] EXCEPT !.url = CleanOne(urls_to_clean[k].url)]]

extract_urls(s) ==
    Tagged(url_pattern_findall(s), "FULL_URL")
    \o clean_urls(Tagged(partial_url_pattern_findall(s), "PARTIAL_URL"))
    \o clean_urls(Tagged(forward_slash_pattern_findall(s), "FORWARD_SLASH"))

----------------------------------------------------------------------------
(* The aggregator: search_directory_for_urls, is_text_file, read_file.      *)

\* the keys of all_urls, in the order the dictionary holds them (lines 97-101)
Categories == <<"FULL_URL", "PARTIAL_URL", "FORWARD_SLASH">>

CategorySet == {Categories[k] : k \in 1..Len(Categories)}

\* lines 97-101
EmptyResult == [c \in CategorySet |-> EmptyBag]

\* process_dir's list (lines 162-164); "BACKTICK" and "DEL" stand for the
\* characters \x60 and \x7F
DirForbidden == {" ", "\"", "<", ">", "\\", "^", "BACKTICK", "{", "}", "[", "]",
                 "|", "DEL", ")", "("}

\* process_repo's list (lines 143-145)
RepoForbidden == DirForbidden \cup {"@"}

\* variant: all(...) in place of any(...)
IsForbiddenMutant(url, forbidden_characters) ==
    \A char \in forbidden_characters : \E k \in 1..Len(url) : url[k] = char

\* any(char in url for char in forbidden_characters)
IsForbidden(url, forbidden_characters) ==
    \E char \in forbidden_characters : \E k \in 1..Len(url) : url[k] = char

\* variant: a list's append in place of a set's add
SetAddMutant(members, url) == members (+) SetToBag({url})

\* set.add: a member already held is not held twice
SetAdd(members, url) ==
    IF BagIn(url, members) THEN members ELSE members (+) SetToBag({url})

\* the loop of lines 111-114 over the matches of one file
RECURSIVE MergeUrls(_, _, _)
MergeUrls(acc, urls, forbidden_characters) ==
    IF urls = <<>> THEN acc
    ELSE LET m == Head(urls) IN
         MergeUrls(IF IsForbidden(m.url, forbidden_characters)
                   THEN acc
                   ELSE [acc EXCEPT ![m.flag] = SetAdd(@, m.url)],
                   Tail(urls), forbidden_characters)

\* file.read(1024) of is_text_file decodes at least this many characters
ProbeChars == 1024

\* is_text_file: the outcomes the strict decode of the first characters can
\* have.  An invalid byte before ProbeChars raises; one further on raises
\* only if the decoder's read-ahead reaches it.
is_text_file(f) ==
    IF f.invalid = {} THEN {TRUE}
    ELSE IF \E o \in f.invalid : o < ProbeChars THEN {FALSE}
    ELSE {TRUE, FALSE}

\* read_file: errors='ignore' drops the invalid bytes, so the decode never
\* raises and the content is the rest of the file
read_file(f) == f.text

----------------------------------------------------------------------------
(* The world of one run: files, directories, repositories.                  *)

\* the most files a scanned local directory holds
MaxFiles == 2

\* the most lines the --file list holds
MaxRepos == 2

T_url == <<"h","t","t","p","s",":","/","/","a",".","c","o","m","/","x">>

T_import == <<"\"", ".", "/", "u", "\"">>

T_at == <<"/", "a", "@", "b">>

T_paren == <<"h","t","t","p",":","/","/","a","(","b">>

T_old == <<"/", "o", "l", "d">>

FileTexts == {T_url, T_import, T_at, T_paren, T_old}

Files == { [text |-> T_url, invalid |-> {}],
           [text |-> T_import, invalid |-> {}],
           [text |-> T_at, invalid |-> {}],
           [text |-> T_paren, invalid |-> {}],
           [text |-> T_url, invalid |-> {10}],
           [text |-> T_import, invalid |-> {9000}] }

\* extract_urls on the texts the files of this world hold
Extracted == [t \in FileTexts |-> extract_urls(t)]

Trees == UNION { [1..k -> Files] : k \in 0..MaxFiles }

RepoURLs == {"repoA", "repoB", "invalid"}

\* what a clone of url brings, when it succeeds
RepoTree(url) ==
    IF url = "repoA"
    THEN << [text |-> T_url, invalid |-> {}], [text |-> T_at, invalid |-> {}] >>
    ELSE << [text |-> T_import, invalid |-> {}] >>

Clonable(url) == url \in {"repoA", "repoB"}

BatchLists == UNION { [1..k -> RepoURLs] : k \in 0..MaxRepos }

\* a 'cloned_repo' left behind by an earlier run
StaleClone == [exists |-> TRUE, files |-> << [text |-> T_old, invalid |-> {}] >>]

NoClone == [exists |-> FALSE, files |-> <<>>]

\* an earlier report
OldReport == [exists |-> TRUE, lines |-> SetToBag({ <<"FULL_URL", T_url>> })]

NoReport == [exists |-> FALSE, lines |-> EmptyBag]

isdir(path) == path = "srcdir"

isfile(path) == path = "list.txt"

----------------------------------------------------------------------------
(* The report writers.                                                      *)

\* the lines '<flag>: <url>' of lines 156-157 and 169-170
UrlLines(urls) ==
    LET keys == { <<c, u>> \in CategorySet \X UNION { BagToSet(urls[c]) : c \in CategorySet } :
                    BagIn(u, urls[c]) }
    IN  [ key \in keys |-> CopiesIn(key[2], urls[key[1]]) ]

\* the header lines of lines 150-155
HeaderLines == SetToBag({ <<"HEADER", "FULL_URLS:">>,
                          <<"HEADER", "PARTIAL_URLS:">>,
                          <<"HEADER", "FORWARD_SLASHES:">> })

Written(kind, urls) ==
    IF kind = "repo" THEN HeaderLines (+) UrlLines(urls) ELSE UrlLines(urls)

\* open(output_file, mode) followed by the writes
WriteMode(append) == IF append THEN "a" ELSE "w"

AfterWrite(file, mode, lines) ==
    [exists |-> TRUE,
     lines |-> IF mode = "a" /\ file.exists THEN file.lines (+) lines ELSE lines]

----------------------------------------------------------------------------
(* main.                                                                    *)

check_program_installed(program) == gitInstalled

\* the packages of line 34 are the module's own imports: they are installed
check_python_package_installed(package) == TRUE

\* variant: the result of the program check is lost
check_requirements_mutant == TRUE

check_requirements ==
    /\ check_program_installed("git")
    /\ \A package \in {"re", "os", "subprocess", "shutil", "sys", "argparse"} :
           check_python_package_installed(package)

NewCall(kind, url) ==
    [kind |-> kind, url |-> url, cloneFailed |-> FALSE, wrote |-> FALSE,
     written |-> EmptyBag, cleanupRan |-> FALSE, left |-> FALSE]

Last(seq) == seq[Len(seq)]

SetLast(seq, v) == [seq EXCEPT ![Len(seq)] = v]

Forbidden(kind) == IF kind = "repo" THEN RepoForbidden ELSE DirForbidden

Init ==
    /\ pc = "start"
    /\ exit_code = -1
    /\ gitInstalled \in BOOLEAN
    /\ args \in [dir : {"", "srcdir", "missing"},
                 repo : {"", "repoA", "invalid"},
                 file : {"", "list.txt", "missing"},
                 output : {"", "out.txt"},
                 append : BOOLEAN]
    /\ cloneDir \in {NoClone, StaleClone}
    /\ output \in {NoReport, OldReport}
    /\ output0 = output
    /\ queue = <<>> /\ tree = <<>> /\ scanIdx = 1
    /\ all_urls = EmptyResult
    /\ calls = <<>> /\ contrib = <<>>
    /\ text = <<>> /\ epc = "idle"
    /\ full_urls = <<>> /\ partial_urls = <<>> /\ forward_slash_strings = <<>>
    /\ result = <<>>

Exit(status) ==
    /\ pc' = "exit"
    /\ exit_code' = status

\* lines 174-176
CheckRequirements ==
    /\ pc = "start"
    /\ IF check_requirements
       THEN pc' = "parse" /\ UNCHANGED exit_code
       ELSE Exit(1)
    /\ UNCHANGED <<gitInstalled, args, cloneDir, output, queue, tree, scanIdx,
                   all_urls, output0, calls, contrib>>
    /\ UNCHANGED extractVars

\* lines 178-184: --output is required, the parser exits with 2 without it
ParseArgs ==
    /\ pc = "parse"
    /\ IF args.output = ""
       THEN Exit(2)
       ELSE pc' = "dispatch" /\ UNCHANGED exit_code
    /\ UNCHANGED <<gitInstalled, args, cloneDir, output, queue, tree, scanIdx,
                   all_urls, output0, calls, contrib>>
    /\ UNCHANGED extractVars

\* lines 186-190 and the start of process_dir (lines 162-165)
DispatchDir ==
    /\ pc = "dispatch"
    /\ args.dir # ""
    /\ IF ~isdir(args.dir)
       THEN /\ Exit(1)
            /\ UNCHANGED <<tree, calls>>
       ELSE /\ \E t \in Trees : tree' = t
            /\ calls' = Append(calls, NewCall("dir", args.dir))
            /\ pc' = "scan"
            /\ UNCHANGED exit_code
    /\ scanIdx' = 1
    /\ all_urls' = EmptyResult
    /\ contrib' = <<>>
    /\ UNCHANGED <<gitInstalled, args, cloneDir, output, queue, output0>>
    /\ UNCHANGED extractVars

\* lines 191-192
DispatchRepo ==
    /\ pc = "dispatch"
    /\ args.dir = "" /\ args.repo # ""
    /\ queue' = <<args.repo>>
    /\ pc' = "next_repo"
    /\ UNCHANGED <<exit_code, gitInstalled, args, cloneDir, output, tree, scanIdx,
                   all_urls, output0, calls, contrib>>
    /\ UNCHANGED extractVars

\* lines 193-198
DispatchFile ==
    /\ pc = "dispatch"
    /\ args.dir = "" /\ args.repo = "" /\ args.file # ""
    /\ IF ~isfile(args.file)
       THEN /\ Exit(1)
            /\ UNCHANGED queue
       ELSE /\ \E repo_urls \in BatchLists : queue' = repo_urls
            /\ pc' = "next_repo"
            /\ UNCHANGED exit_code
    /\ UNCHANGED <<gitInstalled, args, cloneDir, output, tree, scanIdx,
                   all_urls, output0, calls, contrib>>
    /\ UNCHANGED extractVars

\* lines 201-204
DispatchNone ==
    /\ pc = "dispatch"
    /\ args.dir = "" /\ args.repo = "" /\ args.file = ""
    /\ Exit(1)
    /\ UNCHANGED <<gitInstalled, args, cloneDir, output, queue, tree, scanIdx,
                   all_urls, output0, calls, contrib>>
    /\ UNCHANGED extractVars

\* the loop of lines 199-200 is over (or the single call of line 192 is)
Finish ==
    /\ pc = "next_repo"
    /\ queue = <<>>
    /\ pc' = "done"
    /\ exit_code' = 0
    /\ UNCHANGED <<gitInstalled, args, cloneDir, output, queue, tree, scanIdx,
                   all_urls, output0, calls, contrib>>
    /\ UNCHANGED extractVars

\* process_repo, lines 141-146 up to the walk: git clone fails for a URL that
\* cannot be cloned, for a destination that exists and is not empty, or for
\* any outside reason; clone_github_repo prints the error and returns
Clone ==
    /\ pc = "next_repo"
    /\ queue # <<>>
    /\ LET repo_url == Head(queue) IN
       \E reachable \in BOOLEAN :
          LET ok == /\ reachable
                    /\ Clonable(repo_url)
                    /\ (~cloneDir.exists \/ cloneDir.files = <<>>)
              dirAfter == IF ok
                          THEN [exists |-> TRUE, files |-> RepoTree(repo_url)]
                          ELSE cloneDir
          IN  /\ cloneDir' = dirAfter
              /\ calls' = Append(calls,
                     [NewCall("repo", repo_url) EXCEPT !.cloneFailed = ~ok])
              \* os.walk of a directory that does not exist yields nothing
              /\ tree' = IF dirAfter.exists THEN dirAfter.files ELSE <<>>
    /\ scanIdx' = 1
    /\ all_urls' = EmptyResult
    /\ contrib' = <<>>
    /\ pc' = "scan"
    /\ UNCHANGED <<exit_code, gitInstalled, args, output, queue, output0>>
    /\ UNCHANGED extractVars

\* one file of the walk, lines 103-114
ScanFile ==
    /\ pc = "scan"
    /\ scanIdx <= Len(tree)
    /\ LET f == tree[scanIdx]
           forbidden_characters == Forbidden(Last(calls).kind)
       IN  \E readable \in is_text_file(f) :
              IF ~readable
              THEN /\ UNCHANGED all_urls
                   /\ contrib' = Append(contrib,
                          [read |-> FALSE, offered |-> {}, dropped |-> {}])
              ELSE LET urls == Extracted[read_file(f)]
                       all == { <<urls[k].flag, urls[k].url>> : k \in 1..Len(urls) }
                       bad == { m \in all : IsForbidden(m[2], forbidden_characters) }
                   IN  /\ all_urls' = MergeUrls(all_urls, urls, forbidden_characters)
                       /\ contrib' = Append(contrib,
                              [read |-> TRUE, offered |-> all \ bad, dropped |-> bad])
    /\ scanIdx' = scanIdx + 1
    /\ UNCHANGED <<pc, exit_code, gitInstalled, args, cloneDir, output, queue,
                   tree, output0, calls>>
    /\ UNCHANGED extractVars

\* the walk is over: lines 147-157 of process_repo, 166-170 of process_dir.
\* open() may raise; nothing catches it, and main dies with status 1
WriteReport ==
    /\ pc = "scan"
    /\ scanIdx > Len(tree)
    /\ LET c == Last(calls)
           lines == Written(c.kind, all_urls)
       IN  \E opened \in BOOLEAN :
              IF ~opened
              THEN /\ pc' = "crashed"
                   /\ exit_code' = 1
                   /\ calls' = SetLast(calls, [c EXCEPT !.left = TRUE])
                   /\ UNCHANGED output
              ELSE /\ output' = AfterWrite(output, WriteMode(args.append), lines)
                   /\ IF c.kind = "dir"
                      THEN /\ pc' = "done"
                           /\ exit_code' = 0
                           /\ calls' = SetLast(calls,
                                  [c EXCEPT !.wrote = TRUE, !.written = lines,
                                            !.left = TRUE])
                      ELSE /\ pc' = "cleanup"
                           /\ UNCHANGED exit_code
                           /\ calls' = SetLast(calls,
                                  [c EXCEPT !.wrote = TRUE, !.written = lines])
    /\ UNCHANGED <<gitInstalled, args, cloneDir, queue, tree, scanIdx, all_urls,
                   output0, contrib>>
    /\ UNCHANGED extractVars

\* line 158 and cleanup_directory: rmtree may fail (the directory is not
\* there, or a file of it cannot be removed); the error is printed
Cleanup ==
    /\ pc = "cleanup"
    /\ \E removed \in BOOLEAN :
          cloneDir' = IF cloneDir.exists /\ removed THEN NoClone ELSE cloneDir
    /\ calls' = SetLast(calls, [Last(calls) EXCEPT !.cleanupRan = TRUE, !.left = TRUE])
    /\ queue' = Tail(queue)
    /\ pc' = "next_repo"
    /\ UNCHANGED <<exit_code, gitInstalled, args, output, tree, scanIdx, all_urls,
                   output0, contrib>>
    /\ UNCHANGED extractVars

Next ==
    \/ CheckRequirements
    \/ ParseArgs
    \/ DispatchDir
    \/ DispatchRepo
    \/ DispatchFile
    \/ DispatchNone
    \/ Finish
    \/ Clone
    \/ ScanFile
    \/ WriteReport
    \/ Cleanup

Spec == Init /\ [][Next]_vars

----------------------------------------------------------------------------
(* One call of extract_urls on an arbitrary bounded text.                   *)

\* the longest text is made of MaxPieces pieces
MaxPieces == 3

Pieces == { <<"h", "t", "t", "p", ":", "/", "/">>,
            <<"a">>, <<".">>, <<"/">>, <<" ">>, <<",">>, <<"\"">>,
            <<"\n">>, <<"*">>, <<"-">>, <<"=">>, <<"<">>, <<"@">> }

RECURSIVE Flatten(_)
Flatten(ps) == IF ps = <<>> THEN <<>> ELSE Head(ps) \o Flatten(Tail(ps))

Texts == { Flatten(ps) : ps \in UNION { [1..k -> Pieces] : k \in 0..MaxPieces } }

ProgIdle ==
    /\ pc = "idle" /\ exit_code = -1 /\ gitInstalled = TRUE
    /\ args = [dir |-> "", repo |-> "", file |-> "", output |-> "", append |-> FALSE]
    /\ cloneDir = NoClone
    /\ output = NoReport
    /\ queue = <<>> /\ tree = <<>> /\ scanIdx = 1
    /\ all_urls = EmptyResult
    /\ output0 = output /\ calls = <<>> /\ contrib = <<>>

InitExtract ==
    /\ ProgIdle
    /\ text \in Texts
    /\ epc = "called"
    /\ full_urls = <<>> /\ partial_urls = <<>> /\ forward_slash_strings = <<>>
    /\ result = <<>>

\* lines 60-62
Classify ==
    /\ epc = "called"
    /\ full_urls' = Tagged(url_pattern_findall(text), "FULL_URL")
    /\ partial_urls' = Tagged(partial_url_pattern_findall(text), "PARTIAL_URL")
    /\ forward_slash_strings' =
           Tagged(forward_slash_pattern_findall(text), "FORWARD_SLASH")
    /\ epc' = "classified"
    /\ UNCHANGED <<text, result>>
    /\ UNCHANGED progVars

\* line 64
Normalize ==
    /\ epc = "classified"
    /\ result' = full_urls \o clean_urls(partial_urls) \o clean_urls(forward_slash_strings)
    /\ epc' = "returned"
    /\ UNCHANGED <<text, full_urls, partial_urls, forward_slash_strings>>
    /\ UNCHANGED progVars

NextExtract == Classify \/ Normalize

SpecExtract == InitExtract /\ [][NextExtract]_vars

----------------------------------------------------------------------------
(* Properties of a run of main (checked under Spec).                        *)

Terminal == pc \in {"exit", "done", "crashed"}

IsUrlLine(line) == line[1] \in CategorySet

\* C1: no string holding a character of the active forbidden set is a member
\* of a category set of the ResultSet, nor on a '<CATEGORY>: <string>' line
\* that process_dir or process_repo wrote.
C1_ForbiddenNeverReported ==
    /\ calls # <<>> =>
          \A c \in CategorySet : \A u \in BagToSet(all_urls[c]) :
              ~HasCharIn(u, Forbidden(Last(calls).kind))
    /\ \A i \in 1..Len(calls) : \A line \in BagToSet(calls[i].written) :
          IsUrlLine(line) => ~HasCharIn(line[2], Forbidden(calls[i].kind))

\* a repository scan met '/a@b' ('@' is forbidden for repositories only),
\* dropped it, and wrote its report
C1_Witness ==
    /\ calls # <<>>
    /\ Last(calls).kind = "repo"
    /\ Last(calls).wrote
    /\ \E k \in 1..Len(contrib) : <<"FORWARD_SLASH", T_at>> \in contrib[k].dropped
    /\ \E k \in 1..Len(contrib) : contrib[k].offered # {}

\* C2: a process_repo call whose clone failed writes no '<CATEGORY>: <string>'
\* line, whatever happened earlier in the run.
C2_FailedCloneWritesNoUrlLine ==
    \A i \in 1..Len(calls) :
        (calls[i].kind = "repo" /\ calls[i].cloneFailed) =>
            \A line \in BagToSet(calls[i].written) : ~IsUrlLine(line)

\* C3: control never leaves process_repo without cleanup_directory having
\* been called.
C3_CleanupOnEveryExit ==
    \A i \in 1..Len(calls) :
        (calls[i].kind = "repo" /\ calls[i].left) => calls[i].cleanupRan

\* C4: after a --file batch of two or more repositories the output still
\* holds the URL lines written for every earlier repository of the batch,
\* also when --append was not given.
C4_BatchKeepsEarlierLines ==
    (pc = "done" /\ Len(calls) >= 2) =>
        \A i \in 1..(Len(calls) - 1) : \A line \in BagToSet(calls[i].written) :
            IsUrlLine(line) => BagIn(line, output.lines)

\* C5: a file with an invalid UTF-8 byte, at whatever offset, is skipped: it
\* is not read and offers no match to any category.
C5_BinaryFileSkipped ==
    \A k \in 1..Len(contrib) :
        tree[k].invalid # {} =>
            ~contrib[k].read /\ contrib[k].offered = {} /\ contrib[k].dropped = {}

MissingDependency == ~gitInstalled

BadDir == args.dir # "" /\ ~isdir(args.dir)

BadFile == args.dir = "" /\ args.repo = "" /\ args.file # "" /\ ~isfile(args.file)

NoMode == args.dir = "" /\ args.repo = "" /\ args.file = ""

Fatal == MissingDependency \/ BadDir \/ BadFile \/ NoMode

NothingDone == calls = <<>> /\ output = output0

InOverwrittenDirReport ==
    /\ pc = "done" /\ calls # <<>>
    /\ Last(calls).kind = "dir" /\ ~args.append

C7_HeldOnce ==
    /\ \A c \in CategorySet : \A u \in BagToSet(all_urls[c]) :
          CopiesIn(u, all_urls[c]) = 1
    /\ InOverwrittenDirReport =>
          /\ \A line \in BagToSet(output.lines) : CopiesIn(line, output.lines) = 1
          /\ \A k \in 1..Len(contrib) : \A m \in contrib[k].offered :
                CopiesIn(m, output.lines) = 1

C7_SameContentAgain ==
    /\ pc = "scan" /\ scanIdx <= Len(tree) /\ scanIdx' = scanIdx + 1
    /\ \E j \in 1..(scanIdx - 1) :
          contrib[j].read /\ tree[j].text = tree[scanIdx].text

\* C7: a string is held once per category however often it was matched;
\* merging the matches of a content already merged changes nothing; a report
\* written in overwrite mode by process_dir has one line per (category,
\* string), exactly one for each pair some file yielded.
C7_Deduplication ==
    /\ []C7_HeldOnce
    /\ [][C7_SameContentAgain => all_urls' = all_urls]_vars

\* two files both hold https://a.com/x; the overwritten report has one line
C7_Witness ==
    /\ InOverwrittenDirReport
    /\ Len(contrib) = 2
    /\ \A k \in 1..2 : <<"FULL_URL", T_url>> \in contrib[k].offered
    /\ CopiesIn(<<"FULL_URL", T_url>>, output.lines) = 1
    /\ output0 = OldReport

----------------------------------------------------------------------------
(* Properties of extract_urls (checked under SpecExtract).                  *)

IsPathMatch(m) == m.flag \in {"PARTIAL_URL", "FORWARD_SLASH"}

\* C8: every PARTIAL_URL and FORWARD_SLASH match extract_urls returns starts
\* with exactly one '/': its first character is '/', its second is not.
C8_OneLeadingSlash ==
    epc = "returned" =>
        \A k \in 1..Len(result) :
            IsPathMatch(result[k]) =>
                /\ result[k].url # <<>>
                /\ result[k].url[1] = "/"
                /\ Len(result[k].url) >= 2 => result[k].url[2] # "/"

\* the raw match './a' was normalised to '/a'
C8_Witness ==
    /\ epc = "returned"
    /\ \E k \in 1..Len(partial_urls) :
          /\ partial_urls[k].url = <<".", "/", "a">>
          /\ \E j \in 1..Len(result) :
                result[j] = [partial_urls[k] EXCEPT !.url = <<"/", "a">>]

\* s occurs in the text as a token: after the start, white space or a quote,
\* and before the end, white space or a quote
IsTokenOfText(s) ==
    \E t \in 1..Len(text) :
        /\ StartsWithAt(text, t, s)
        /\ (t = 1 \/ text[t - 1] \in WhiteSpace \cup Quotes)
        /\ RightBoundary(text, t + Len(s))

C10_ForwardSlashNeedsSlash ==
    /\ \A k \in 1..Len(forward_slash_strings) :
          startswith(forward_slash_strings[k].url, <<"/">>)
    /\ (epc = "returned" /\ ~HasCharIn(text, {"/"})) =>
          \A k \in 1..Len(result) : result[k].flag # "FORWARD_SLASH"

====
